---- MODULE Spec2Model ----
(***************************************************************************)
(* A model of the hyperbilirubinemia calculator: the reference-table       *)
(* lookup (utils/aap-table-loader.ts), the threshold derivation, status    *)
(* evaluation, guidance and full assessment (core/hyperbili-risk.ts), the  *)
(* clinical action and the follow-up rule catalog.                         *)
(*                                                                         *)
(* Numbers.  A TypeScript `number` is modelled as an integer counting      *)
(* hundredths: 2 mg/dL is 200, 38.5 weeks is 3850, 24 hours is 2400.       *)
(* Strings that the code searches (table titles) are sequences of          *)
(* characters; decimal property keys ('38', '24') are sequences of digit   *)
(* characters.                                                             *)
(***************************************************************************)
EXTENDS Integers, Sequences, FiniteSets, TLC

\* REFERENCE_TABLES: the table store of utils/aap-table-loader.ts
\* followUpRules:    the array HYPERBILI_FOLLOW_UP_RULES of data/follow-up-rules.ts
\* call:             the call in progress, with its inputs and its outcome
VARIABLES REFERENCE_TABLES, followUpRules, call

vars == <<REFERENCE_TABLES, followUpRules, call>>

---------------------------------------------------------------------------
(* Fixed-point numbers and JavaScript primitives *)

\* one unit of a `number`, in hundredths
Unit == 100

Num(n) == n * Unit

Infinity == 1000000000

Floor(x) == (x \div Unit) * Unit

IsInteger(x) == x % Unit = 0

MathMax2(a, b) == IF a >= b THEN a ELSE b

MathMin2(a, b) == IF a <= b THEN a ELSE b

\* Math.max(...xs) over a set of numbers; -Infinity for none
MathMax(S) == IF S = {} THEN -Infinity ELSE CHOOSE x \in S : \A y \in S : y <= x

\* Math.min(...xs) over a set of numbers; Infinity for none
MathMin(S) == IF S = {} THEN Infinity ELSE CHOOSE x \in S : \A y \in S : x <= y

DigitChars == <<"0", "1", "2", "3", "4", "5", "6", "7", "8", "9">>

RECURSIVE Digits(_)
Digits(n) == IF n < 10 THEN <<DigitChars[n + 1]>>
             ELSE Digits(n \div 10) \o <<DigitChars[(n % 10) + 1]>>

\* the decimal places of a fraction given in hundredths: 50 is "5", 47 is "47"
Fraction(f) == IF f % 10 = 0 THEN <<DigitChars[(f \div 10) + 1]>>
               ELSE <<DigitChars[(f \div 10) + 1], DigitChars[(f % 10) + 1]>>

\* String(x) for x >= 0: "38" for 38, "1.5" for 1.5
Decimal(x) == IF IsInteger(x) THEN Digits(x \div Unit)
              ELSE Digits(x \div Unit) \o <<".">> \o Fraction(x % Unit)

String(x) == IF x >= Infinity THEN <<"Infinity">>
             ELSE IF x <= -Infinity THEN <<"-Infinity">>
             ELSE IF x < 0 THEN <<"-">> \o Decimal(-x)
             ELSE Decimal(x)

DigitValues ==
    ("0" :> 0) @@ ("1" :> 1) @@ ("2" :> 2) @@ ("3" :> 3) @@ ("4" :> 4) @@
    ("5" :> 5) @@ ("6" :> 6) @@ ("7" :> 7) @@ ("8" :> 8) @@ ("9" :> 9)

\* the number written by the first n digits of s
RECURSIVE PrefixValue(_, _)
PrefixValue(s, n) == IF n = 0 THEN 0
                     ELSE 10 * PrefixValue(s, n - 1) + DigitValues[s[n]]

DigitsValue(s) == PrefixValue(s, Len(s))

\* Number(key) for a key made of decimal digits
Number(s) == Num(DigitsValue(s))

\* str.includes(pat)
Includes(str, pat) ==
    \E i \in 1..(Len(str) - Len(pat) + 1) : SubSeq(str, i, i + Len(pat) - 1) = pat

---------------------------------------------------------------------------
(* The reference tables (data/aap-reference-tables/*.json).  The JSON files
   are modelled from the table schema, the loader's checks and the title
   words that determineGestationalAgeKey searches for. *)

W_Phototherapy == <<"P", "h", "o", "t", "o", "t", "h", "e", "r", "a", "p", "y">>

W_Exchange == <<"E", "x", "c", "h", "a", "n", "g", "e">>

W_Transfusion == <<"T", "r", "a", "n", "s", "f", "u", "s", "i", "o", "n">>

W_Thresholds == <<"T", "h", "r", "e", "s", "h", "o", "l", "d", "s">>

W_Without == <<"W", "i", "t", "h", "o", "u", "t">>

W_With == <<"W", "i", "t", "h">>

W_Risk == <<"R", "i", "s", "k">>

W_Factors == <<"F", "a", "c", "t", "o", "r", "s">>

W_Space == <<" ">>

\* words joined by single spaces
RECURSIVE Phrase(_)
Phrase(ws) == IF Len(ws) = 1 THEN ws[1]
              ELSE ws[1] \o W_Space \o Phrase(Tail(ws))

TitlePhototherapyNoRisk ==
    Phrase(<<W_Phototherapy, W_Thresholds, W_Without, W_Risk, W_Factors>>)

TitlePhototherapyWithRisk ==
    Phrase(<<W_Phototherapy, W_Thresholds, W_With, W_Risk, W_Factors>>)

TitleExchangeNoRisk ==
    Phrase(<<W_Exchange, W_Transfusion, W_Thresholds, W_Without, W_Risk, W_Factors>>)

TitleExchangeWithRisk ==
    Phrase(<<W_Exchange, W_Transfusion, W_Thresholds, W_With, W_Risk, W_Factors>>)

\* hourly rise of a threshold curve before its plateau, in hundredths of mg/dL
HourlyRise == 50

\* plateau hour of the earliest curve of a stored table: the stored curves
\* hold this many hourly values and more
CurveHours == 13

\* GestationalAgeThreshold: values for the hours 1..lastHour except `missing`,
\* rising from `first` at hour 1
Bucket(plateauHour, plateauValue, first, lastHour, missing) ==
    [ description  |-> "curve",
      plateauHour  |-> Num(plateauHour),
      plateauValue |-> plateauValue,
      values       |-> [ k \in { String(Num(h)) : h \in (1..lastHour) \ missing } |->
                           first + HourlyRise * (DigitsValue(k) - 1) ] ]

\* a curve whose plateau continues its last hourly value
Curve(plateauHour, first) ==
    Bucket(plateauHour, first + HourlyRise * (plateauHour - 1), first, plateauHour, {})

\* AapReferenceTable
Table(title, units, thresholds) ==
    [ title |-> title, description |-> "thresholds by gestational age and hour",
      source |-> "AAP 2022", units |-> units, thresholds |-> thresholds ]

WeekKeys(lo, hi) == { String(Num(w)) : w \in lo..hi }

\* one curve per week lo..hi: a week later starts 1 mg/dL higher and
\* plateaus one hour later
Curves(lo, hi, first, plateauHour) ==
    [ k \in WeekKeys(lo, hi) |->
        Curve(plateauHour + (DigitsValue(k) - lo), first + Num(DigitsValue(k) - lo)) ]

PhototherapyNoRiskData ==
    Table(TitlePhototherapyNoRisk, "mg/dL", Curves(35, 40, 450, CurveHours))

PhototherapyWithRiskData ==
    Table(TitlePhototherapyWithRisk, "mg/dL", Curves(35, 38, 250, CurveHours))

ExchangeNoRiskData ==
    Table(TitleExchangeNoRisk, "mg/dL", Curves(35, 38, 1250, CurveHours + 2))

ExchangeWithRiskData ==
    Table(TitleExchangeWithRisk, "mg/dL", Curves(35, 38, 1050, CurveHours + 1))

\* the table store as loaded: well-formed curves, the exchange curves more
\* than 2 mg/dL above the phototherapy curves
AapStore ==
    [ phototherapyNoRisk   |-> PhototherapyNoRiskData,
      phototherapyWithRisk |-> PhototherapyWithRiskData,
      exchangeNoRisk       |-> ExchangeNoRiskData,
      exchangeWithRisk     |-> ExchangeWithRiskData ]

\* a store whose exchange curves run less than 2 mg/dL above the
\* phototherapy curves (every structural check of the loader passes)
NarrowStore ==
    [ AapStore EXCEPT
        !.exchangeNoRisk   = Table(TitleExchangeNoRisk, "mg/dL", Curves(35, 38, 550, CurveHours)),
        !.exchangeWithRisk = Table(TitleExchangeWithRisk, "mg/dL", Curves(35, 38, 350, CurveHours)) ]

\* a store with hour 24 missing below the plateau of one curve of each
\* phototherapy table (the loader checks only the largest hour)
GapStore ==
    [ AapStore EXCEPT
        !.phototherapyNoRisk.thresholds[String(Num(37))] =
            Bucket(30, 1900, 450, 30, {24}),
        !.phototherapyWithRisk.thresholds[String(Num(37))] =
            Bucket(30, 1700, 250, 30, {24}) ]

\* a store one of whose tables fails the loader's unit check
BadUnitsStore ==
    [ AapStore EXCEPT !.exchangeNoRisk.units = "umol/L" ]

Stores == {AapStore, NarrowStore, GapStore, BadUnitsStore}

\* tables handed to getThresholdValue directly (it is exported and takes
\* any table): a curve with a hole, a plateau value unlike every hourly
\* value, and bucket keys with a gap
HoleTable ==
    Table(TitlePhototherapyWithRisk, "mg/dL",
          [ k \in WeekKeys(35, 38) |-> Bucket(30, 1700, 250, 30, {24}) ])

StepTable ==
    Table(TitlePhototherapyNoRisk, "mg/dL",
          [ k \in WeekKeys(35, 40) |-> Bucket(12, 2525, 450, 20, {}) ])

SparseTable ==
    Table(TitleExchangeNoRisk, "mg/dL",
          [ k \in {String(Num(33)), String(Num(35)), String(Num(37))} |-> Curve(20, 1250) ])

\* a table no grouping rule applies to (its title names neither kind of
\* threshold and it has no 40 bucket), with a gap in its bucket keys
PlainTable ==
    Table(Phrase(<<W_Thresholds, W_Without, W_Risk, W_Factors>>), "mg/dL",
          [ k \in {String(Num(36)), String(Num(37)), String(Num(39))} |-> Curve(20, 1250) ])

StoreTables(store) ==
    { store.phototherapyNoRisk, store.phototherapyWithRisk,
      store.exchangeNoRisk, store.exchangeWithRisk }

LookupTables(store) ==
    StoreTables(store) \cup {HoleTable, StepTable, SparseTable, PlainTable}

---------------------------------------------------------------------------
(* Outcomes: a returned value or a thrown error, named by its class *)

Ok(v) == [status |-> "ok", value |-> v]

Throw(name) == [status |-> name]

IsOk(r) == r.status = "ok"

---------------------------------------------------------------------------
(* constants/clinical-thresholds.ts, in hundredths *)

ESCALATION_OFFSET_MG_DL == 200

TCB_CONFIRMATION_OFFSET_MG_DL == 200

DISCHARGE_WARNING_AGE_HOURS == 2400

MIN_AGE_HOURS == 100

MAX_AGE_HOURS == 33600

FOLLOW_UP_AGE_THRESHOLD_HOURS == 7200

MIN_GESTATIONAL_AGE_WEEKS == 3500

MAX_GESTATIONAL_AGE_WEEKS == 4200

MIN_TSB_MG_DL == 0

MAX_TSB_MG_DL == 3000

---------------------------------------------------------------------------
(* utils/aap-table-loader.ts *)

\* Object.keys(table.thresholds).map(Number)
AvailableKeys(table) == { Number(k) : k \in DOMAIN table.thresholds }

\* determineGestationalAgeKey whose grouping tests are strict (> for >=)
determineGestationalAgeKey_strictGrouping(table, gestationalAge) ==
    LET availableKeys == AvailableKeys(table)
        maxKey        == MathMax(availableKeys)
        flooredGA     == Floor(gestationalAge)
        minKey        == MathMin(availableKeys)
    IN  IF /\ Includes(table.title, W_Without)
           /\ Num(40) \in availableKeys
           /\ gestationalAge > Num(40)
        THEN Ok(String(Num(40)))
        ELSE IF /\ Includes(table.title, W_With)
                /\ Includes(table.title, W_Phototherapy)
                /\ gestationalAge > Num(38)
        THEN Ok(String(Num(38)))
        ELSE IF /\ Includes(table.title, W_Exchange)
                /\ gestationalAge > Num(38)
        THEN Ok(String(Num(38)))
        ELSE IF flooredGA \in availableKeys THEN Ok(String(flooredGA))
        ELSE IF flooredGA >= maxKey THEN Ok(String(maxKey))
        ELSE IF flooredGA <= minKey THEN Ok(String(minKey))
        ELSE Throw("InvalidInputError")

\* determineGestationalAgeKey without the clamp to the lowest bucket
determineGestationalAgeKey_noClampLow(table, gestationalAge) ==
    LET availableKeys == AvailableKeys(table)
        maxKey        == MathMax(availableKeys)
        flooredGA     == Floor(gestationalAge)
    IN  IF /\ Includes(table.title, W_Without)
           /\ Num(40) \in availableKeys
           /\ gestationalAge >= Num(40)
        THEN Ok(String(Num(40)))
        ELSE IF /\ Includes(table.title, W_With)
                /\ Includes(table.title, W_Phototherapy)
                /\ gestationalAge >= Num(38)
        THEN Ok(String(Num(38)))
        ELSE IF /\ Includes(table.title, W_Exchange)
                /\ gestationalAge >= Num(38)
        THEN Ok(String(Num(38)))
        ELSE IF flooredGA \in availableKeys THEN Ok(String(flooredGA))
        ELSE IF flooredGA >= maxKey THEN Ok(String(maxKey))
        ELSE Throw("InvalidInputError")

\* determineGestationalAgeKey that builds the key from the gestational age as
\* given, not from its floor
determineGestationalAgeKey_unflooredKey(table, gestationalAge) ==
    LET availableKeys == AvailableKeys(table)
        maxKey        == MathMax(availableKeys)
        flooredGA     == Floor(gestationalAge)
        minKey        == MathMin(availableKeys)
    IN  IF /\ Includes(table.title, W_Without)
           /\ Num(40) \in availableKeys
           /\ gestationalAge >= Num(40)
        THEN Ok(String(Num(40)))
        ELSE IF /\ Includes(table.title, W_With)
                /\ Includes(table.title, W_Phototherapy)
                /\ gestationalAge >= Num(38)
        THEN Ok(String(Num(38)))
        ELSE IF /\ Includes(table.title, W_Exchange)
                /\ gestationalAge >= Num(38)
        THEN Ok(String(Num(38)))
        ELSE IF flooredGA \in availableKeys THEN Ok(String(gestationalAge))
        ELSE IF flooredGA >= maxKey THEN Ok(String(maxKey))
        ELSE IF flooredGA <= minKey THEN Ok(String(minKey))
        ELSE Throw("InvalidInputError")

determineGestationalAgeKey(table, gestationalAge) ==
    LET availableKeys == AvailableKeys(table)
        maxKey        == MathMax(availableKeys)
        flooredGA     == Floor(gestationalAge)
        minKey        == MathMin(availableKeys)
    IN  IF /\ Includes(table.title, W_Without)
           /\ Num(40) \in availableKeys
           /\ gestationalAge >= Num(40)
        THEN Ok(String(Num(40)))
        ELSE IF /\ Includes(table.title, W_With)
                /\ Includes(table.title, W_Phototherapy)
                /\ gestationalAge >= Num(38)
        THEN Ok(String(Num(38)))
        ELSE IF /\ Includes(table.title, W_Exchange)
                /\ gestationalAge >= Num(38)
        THEN Ok(String(Num(38)))
        ELSE IF flooredGA \in availableKeys THEN Ok(String(flooredGA))
        ELSE IF flooredGA >= maxKey THEN Ok(String(maxKey))
        ELSE IF flooredGA <= minKey THEN Ok(String(minKey))
        ELSE Throw("InvalidInputError")

\* ClampHours without Math.floor
ClampHours_noFloor(ageHours) == MathMax2(Num(1), MathMin2(Num(336), ageHours))

\* Math.max(1, Math.min(336, Math.floor(ageHours)))
ClampHours(ageHours) == MathMax2(Num(1), MathMin2(Num(336), Floor(ageHours)))

\* ThresholdAtHour that takes the plateau only after plateauHour (> for >=)
ThresholdAtHour_plateauAfter(threshold, ageHours) ==
    LET clampedHours == ClampHours(ageHours)
        hourKey      == String(clampedHours)
    IN  IF clampedHours > threshold.plateauHour THEN Ok(threshold.plateauValue)
        ELSE IF hourKey \notin DOMAIN threshold.values
        THEN Throw("DataNotAvailableError")
        ELSE Ok(threshold.values[hourKey])

\* ThresholdAtHour that falls back to the plateau value for a missing hour
ThresholdAtHour_missingToPlateau(threshold, ageHours) ==
    LET clampedHours == ClampHours(ageHours)
        hourKey      == String(clampedHours)
    IN  IF clampedHours >= threshold.plateauHour THEN Ok(threshold.plateauValue)
        ELSE IF hourKey \notin DOMAIN threshold.values
        THEN Ok(threshold.plateauValue)
        ELSE Ok(threshold.values[hourKey])

\* the lookup in the bucket found under gaKey
ThresholdAtHour(threshold, ageHours) ==
    LET clampedHours == ClampHours(ageHours)
        hourKey      == String(clampedHours)
    IN  IF clampedHours >= threshold.plateauHour THEN Ok(threshold.plateauValue)
        ELSE IF hourKey \notin DOMAIN threshold.values
        THEN Throw("DataNotAvailableError")
        ELSE Ok(threshold.values[hourKey])

getThresholdValue(table, gestationalAge, ageHours) ==
    LET gaKey == determineGestationalAgeKey(table, gestationalAge)
    IN  IF ~IsOk(gaKey) THEN gaKey
        ELSE IF gaKey.value \notin DOMAIN table.thresholds
        THEN Throw("DataNotAvailableError")
        ELSE ThresholdAtHour(table.thresholds[gaKey.value], ageHours)

\* TRUE when validateTableStructure returns without throwing.  The largest
\* hour of a curve (-Infinity for none) is below plateauHour exactly when no
\* hour of the curve reaches plateauHour.
validateTableStructure(table) ==
    /\ table.title # <<>>
    /\ table.description # ""
    /\ table.source # ""
    /\ table.units # ""
    /\ table.units = "mg/dL"
    /\ \A ga \in DOMAIN table.thresholds :
         LET threshold == table.thresholds[ga]
         IN  /\ threshold.description # ""
             /\ \E h \in DOMAIN threshold.values : Number(h) >= threshold.plateauHour

\* the store holds the four named tables, so only the validation can fail,
\* and its error is rethrown as an InternalError
loadReferenceTable(table) ==
    IF validateTableStructure(table) THEN Ok(table) ELSE Throw("InternalError")

loadAllReferenceTables(store) ==
    IF \A t \in StoreTables(store) : IsOk(loadReferenceTable(t))
    THEN Ok(store)
    ELSE Throw("InternalError")

---------------------------------------------------------------------------
(* Optional values: `undefined`, or a value that is present *)

Undefined == [defined |-> FALSE]

Some(v) == [defined |-> TRUE, value |-> v]

---------------------------------------------------------------------------
(* core/hyperbili-risk-types.ts: determineAapClinicalAction *)

\* determineAapClinicalAction that tests the thresholds bottom-up
determineAapClinicalAction_bottomUp(bilirubinMgDl, thresholds) ==
    IF bilirubinMgDl < thresholds.phototherapy
    THEN "No phototherapy required"
    ELSE IF bilirubinMgDl < thresholds.escalationOfCare
    THEN "Begin phototherapy"
    ELSE IF bilirubinMgDl < thresholds.exchangeTransfusion
    THEN "Begin intensive phototherapy and prepare for exchange transfusion"
    ELSE "Begin exchange transfusion"

\* determineAapClinicalAction with strict comparisons
determineAapClinicalAction_strict(bilirubinMgDl, thresholds) ==
    IF bilirubinMgDl > thresholds.exchangeTransfusion
    THEN "Begin exchange transfusion"
    ELSE IF bilirubinMgDl > thresholds.escalationOfCare
    THEN "Begin intensive phototherapy and prepare for exchange transfusion"
    ELSE IF bilirubinMgDl > thresholds.phototherapy
    THEN "Begin phototherapy"
    ELSE "No phototherapy required"

determineAapClinicalAction(bilirubinMgDl, thresholds) ==
    IF bilirubinMgDl >= thresholds.exchangeTransfusion
    THEN "Begin exchange transfusion"
    ELSE IF bilirubinMgDl >= thresholds.escalationOfCare
    THEN "Begin intensive phototherapy and prepare for exchange transfusion"
    ELSE IF bilirubinMgDl >= thresholds.phototherapy
    THEN "Begin phototherapy"
    ELSE "No phototherapy required"

---------------------------------------------------------------------------
(* data/follow-up-rules.ts *)

Rule(id, minDifference, maxDifference, ageCondition, recommendation) ==
    [ id |-> id, minDifference |-> minDifference, maxDifference |-> maxDifference,
      ageCondition |-> ageCondition, recommendation |-> recommendation ]

\* ageCondition: {}
NoAgeCondition == <<>>

HYPERBILI_FOLLOW_UP_RULES ==
    << Rule("rule_1a", 10, 200, [maxHours |-> DISCHARGE_WARNING_AGE_HOURS],
            "Delay discharge, consider phototherapy, measure TSB in 4 to 8 hours"),
       Rule("rule_1b", 10, 200, [minHours |-> DISCHARGE_WARNING_AGE_HOURS],
            "Measure TSB in 4 to 24 hours. Options: delay discharge and consider phototherapy, discharge with home phototherapy if eligible, or discharge without phototherapy but with close follow-up"),
       Rule("rule_2", 200, 350, NoAgeCondition, "TSB or TcB in 4 to 24 hours"),
       Rule("rule_3", 350, 550, NoAgeCondition, "TSB or TcB in 1-2 days"),
       Rule("rule_4a", 550, 700, [maxHours |-> FOLLOW_UP_AGE_THRESHOLD_HOURS],
            "Follow-up within 2 days; TcB or TSB according to clinical judgment"),
       Rule("rule_4b", 550, 700, [minHours |-> FOLLOW_UP_AGE_THRESHOLD_HOURS],
            "Clinical judgment"),
       Rule("rule_5a", 700, Infinity, [maxHours |-> FOLLOW_UP_AGE_THRESHOLD_HOURS],
            "Follow-up within 3 days; TcB or TSB according to clinical judgment"),
       Rule("rule_5b", 700, Infinity, [minHours |-> FOLLOW_UP_AGE_THRESHOLD_HOURS],
            "Clinical judgment") >>

BELOW_THRESHOLD_RULE ==
    Rule("rule_negative", -Infinity, 0, NoAgeCondition,
         "TSB exceeds phototherapy threshold - phototherapy is indicated")

FALLBACK_RULE ==
    Rule("rule_fallback", 0, Infinity, NoAgeCondition,
         "Clinical judgment - consult AAP guidelines")

\* the predicate with the lower bound of the band inclusive and the upper
\* bound exclusive
RuleMatches_lowerInclusive(rule, differenceFromThreshold, ageHours) ==
    LET inDifferenceRange ==
            /\ differenceFromThreshold >= rule.minDifference
            /\ differenceFromThreshold < rule.maxDifference
        meetsAgeCondition ==
            /\ ("minHours" \notin DOMAIN rule.ageCondition
                   \/ ageHours >= rule.ageCondition.minHours)
            /\ ("maxHours" \notin DOMAIN rule.ageCondition
                   \/ ageHours < rule.ageCondition.maxHours)
    IN  inDifferenceRange /\ meetsAgeCondition

\* the predicate without the lower age bound
RuleMatches_ignoresMinHours(rule, differenceFromThreshold, ageHours) ==
    LET inDifferenceRange ==
            /\ differenceFromThreshold > rule.minDifference
            /\ differenceFromThreshold <= rule.maxDifference
        meetsAgeCondition ==
            "maxHours" \notin DOMAIN rule.ageCondition
                \/ ageHours < rule.ageCondition.maxHours
    IN  inDifferenceRange /\ meetsAgeCondition

\* the predicate handed to HYPERBILI_FOLLOW_UP_RULES.find
RuleMatches(rule, differenceFromThreshold, ageHours) ==
    LET inDifferenceRange ==
            /\ differenceFromThreshold > rule.minDifference
            /\ differenceFromThreshold <= rule.maxDifference
        meetsAgeCondition ==
            /\ ("minHours" \notin DOMAIN rule.ageCondition
                   \/ ageHours >= rule.ageCondition.minHours)
            /\ ("maxHours" \notin DOMAIN rule.ageCondition
                   \/ ageHours < rule.ageCondition.maxHours)
    IN  inDifferenceRange /\ meetsAgeCondition

\* findFollowUpRule that answers an unmatched gap with the sentinel rule
findFollowUpRule_sentinelWhenUnmatched(differenceFromThreshold, ageHours) ==
    LET matching == { i \in 1..Len(followUpRules) :
                        RuleMatches(followUpRules[i],
                                    differenceFromThreshold, ageHours) }
    IN  IF differenceFromThreshold <= 0 \/ matching = {} THEN BELOW_THRESHOLD_RULE
        ELSE followUpRules[CHOOSE i \in matching : \A j \in matching : i <= j]

\* findFollowUpRule that keeps the sentinel for a gap below 0 only
findFollowUpRule_strictSentinel(differenceFromThreshold, ageHours) ==
    LET matching == { i \in 1..Len(followUpRules) :
                        RuleMatches(followUpRules[i],
                                    differenceFromThreshold, ageHours) }
    IN  IF differenceFromThreshold < 0 THEN BELOW_THRESHOLD_RULE
        ELSE IF matching = {} THEN FALLBACK_RULE
        ELSE followUpRules[CHOOSE i \in matching : \A j \in matching : i <= j]

findFollowUpRule(differenceFromThreshold, ageHours) ==
    LET matching == { i \in 1..Len(followUpRules) :
                        RuleMatches(followUpRules[i],
                                    differenceFromThreshold, ageHours) }
    IN  IF differenceFromThreshold <= 0 THEN BELOW_THRESHOLD_RULE
        ELSE IF matching = {} THEN FALLBACK_RULE
        ELSE followUpRules[CHOOSE i \in matching : \A j \in matching : i <= j]

---------------------------------------------------------------------------
(* core/hyperbili-risk.ts *)

\* TRUE when validateHyperbiliRiskInput returns without throwing
validateHyperbiliRiskInput(input) ==
    /\ ~(input.gestationalAge < MIN_GESTATIONAL_AGE_WEEKS)
    /\ ~(input.gestationalAge > MAX_GESTATIONAL_AGE_WEEKS)
    /\ ~(input.currentAgeHours < MIN_AGE_HOURS)
    /\ ~(input.currentAgeHours > MAX_AGE_HOURS)
    /\ ~(input.currentTSB < MIN_TSB_MG_DL)
    /\ ~(input.currentTSB > MAX_TSB_MG_DL)

SelectPhototherapyTable(tables, hasNeurotoxicityRiskFactors) ==
    IF hasNeurotoxicityRiskFactors THEN tables.phototherapyWithRisk
    ELSE tables.phototherapyNoRisk

\* SelectExchangeTable that ignores the risk flag
SelectExchangeTable_alwaysNoRisk(tables, hasNeurotoxicityRiskFactors) ==
    tables.exchangeNoRisk

SelectExchangeTable(tables, hasNeurotoxicityRiskFactors) ==
    IF hasNeurotoxicityRiskFactors THEN tables.exchangeWithRisk
    ELSE tables.exchangeNoRisk

\* DeriveThresholds with both offsets taken from the phototherapy value
DeriveThresholds_offsetFromPhototherapy(phototherapy, exchangeTransfusion) ==
    [ phototherapy |-> phototherapy,
      escalationOfCare |-> phototherapy - ESCALATION_OFFSET_MG_DL,
      exchangeTransfusion |-> exchangeTransfusion,
      transcutaneousBilirubinConfirmation |->
          phototherapy - TCB_CONFIRMATION_OFFSET_MG_DL ]

\* DeriveThresholds that adds the escalation offset
DeriveThresholds_escalationAbove(phototherapy, exchangeTransfusion) ==
    [ phototherapy |-> phototherapy,
      escalationOfCare |-> exchangeTransfusion + ESCALATION_OFFSET_MG_DL,
      exchangeTransfusion |-> exchangeTransfusion,
      transcutaneousBilirubinConfirmation |->
          phototherapy - TCB_CONFIRMATION_OFFSET_MG_DL ]

\* DeriveThresholds that puts the confirmation threshold 2 above the
\* phototherapy threshold
DeriveThresholds_confirmationAbove(phototherapy, exchangeTransfusion) ==
    [ phototherapy |-> phototherapy,
      escalationOfCare |-> exchangeTransfusion - ESCALATION_OFFSET_MG_DL,
      exchangeTransfusion |-> exchangeTransfusion,
      transcutaneousBilirubinConfirmation |->
          phototherapy + TCB_CONFIRMATION_OFFSET_MG_DL ]

\* the record calculateBilirubinThresholds returns
DeriveThresholds(phototherapy, exchangeTransfusion) ==
    [ phototherapy |-> phototherapy,
      escalationOfCare |-> exchangeTransfusion - ESCALATION_OFFSET_MG_DL,
      exchangeTransfusion |-> exchangeTransfusion,
      transcutaneousBilirubinConfirmation |->
          phototherapy - TCB_CONFIRMATION_OFFSET_MG_DL ]

\* loadAllReferenceTables of each store, tabulated: it reads nothing but the
\* store, so every call on the same store has this outcome
LoadedTables == [ store \in Stores |-> loadAllReferenceTables(store) ]

\* calculateBilirubinThresholds that rejects the age 336 itself
calculateBilirubinThresholds_rejectsAt336(store, gestationalAgeWeeks, ageHours, hasNeurotoxicityRiskFactors) ==
    LET tables == LoadedTables[store]
        clampedAgeHours == ageHours
        phototherapyTable ==
            SelectPhototherapyTable(tables.value, hasNeurotoxicityRiskFactors)
        exchangeTable == SelectExchangeTable(tables.value, hasNeurotoxicityRiskFactors)
        phototherapy ==
            getThresholdValue(phototherapyTable, gestationalAgeWeeks, clampedAgeHours)
        exchangeTransfusion ==
            getThresholdValue(exchangeTable, gestationalAgeWeeks, clampedAgeHours)
    IN  IF ~IsOk(tables) THEN tables
        ELSE IF ageHours >= MAX_AGE_HOURS THEN Throw("InvalidInputError")
        ELSE IF ~IsOk(phototherapy) THEN phototherapy
        ELSE IF ~IsOk(exchangeTransfusion) THEN exchangeTransfusion
        ELSE Ok(DeriveThresholds(phototherapy.value, exchangeTransfusion.value))

\* calculateBilirubinThresholds that leaves an age above 336 to the clamp of
\* the lookup
calculateBilirubinThresholds_clampsHigh(store, gestationalAgeWeeks, ageHours, hasNeurotoxicityRiskFactors) ==
    LET tables == LoadedTables[store]
        clampedAgeHours == ageHours
        phototherapyTable ==
            SelectPhototherapyTable(tables.value, hasNeurotoxicityRiskFactors)
        exchangeTable == SelectExchangeTable(tables.value, hasNeurotoxicityRiskFactors)
        phototherapy ==
            getThresholdValue(phototherapyTable, gestationalAgeWeeks, clampedAgeHours)
        exchangeTransfusion ==
            getThresholdValue(exchangeTable, gestationalAgeWeeks, clampedAgeHours)
    IN  IF ~IsOk(tables) THEN tables
        ELSE IF ~IsOk(phototherapy) THEN phototherapy
        ELSE IF ~IsOk(exchangeTransfusion) THEN exchangeTransfusion
        ELSE Ok(DeriveThresholds(phototherapy.value, exchangeTransfusion.value))

calculateBilirubinThresholds(store, gestationalAgeWeeks, ageHours, hasNeurotoxicityRiskFactors) ==
    LET tables == LoadedTables[store]
        clampedAgeHours == ageHours
        phototherapyTable ==
            SelectPhototherapyTable(tables.value, hasNeurotoxicityRiskFactors)
        exchangeTable == SelectExchangeTable(tables.value, hasNeurotoxicityRiskFactors)
        phototherapy ==
            getThresholdValue(phototherapyTable, gestationalAgeWeeks, clampedAgeHours)
        exchangeTransfusion ==
            getThresholdValue(exchangeTable, gestationalAgeWeeks, clampedAgeHours)
    IN  IF ~IsOk(tables) THEN tables
        ELSE IF ageHours > MAX_AGE_HOURS THEN Throw("InvalidInputError")
        ELSE IF ~IsOk(phototherapy) THEN phototherapy
        ELSE IF ~IsOk(exchangeTransfusion) THEN exchangeTransfusion
        ELSE Ok(DeriveThresholds(phototherapy.value, exchangeTransfusion.value))

\* assessClinicalStatus with strict comparisons (> for >=)
assessClinicalStatus_strict(bilirubinMgDl, thresholds) ==
    [ requiresPhototherapy |-> bilirubinMgDl > thresholds.phototherapy,
      requiresIntensivePhototherapy |-> bilirubinMgDl > thresholds.escalationOfCare,
      requiresExchangeTransfusion |-> bilirubinMgDl > thresholds.exchangeTransfusion,
      requiresSerumConfirmationForTcB |->
          bilirubinMgDl > thresholds.transcutaneousBilirubinConfirmation ]

assessClinicalStatus(bilirubinMgDl, thresholds) ==
    [ requiresPhototherapy |-> bilirubinMgDl >= thresholds.phototherapy,
      requiresIntensivePhototherapy |-> bilirubinMgDl >= thresholds.escalationOfCare,
      requiresExchangeTransfusion |-> bilirubinMgDl >= thresholds.exchangeTransfusion,
      requiresSerumConfirmationForTcB |->
          bilirubinMgDl >= thresholds.transcutaneousBilirubinConfirmation ]

DISCHARGE_TEXT ==
    "Consider delaying discharge for infants <24 hours old when TSB is within 2 mg/dL of phototherapy threshold"

\* generateClinicalGuidance that consults the rules when the measured value
\* is exactly at the phototherapy threshold
generateClinicalGuidance_rulesAtThreshold(bilirubinMgDl, thresholds, ageHours) ==
    LET phototherapyDiff == bilirubinMgDl - thresholds.phototherapy
        immediateAction == determineAapClinicalAction(bilirubinMgDl, thresholds)
        diffBelowThreshold == -phototherapyDiff
        followUpRecommendation ==
            IF phototherapyDiff > 0
            THEN "Phototherapy indicated - see clinical action"
            ELSE findFollowUpRule(diffBelowThreshold, ageHours).recommendation
        dischargeConsiderations ==
            IF /\ ageHours < DISCHARGE_WARNING_AGE_HOURS
               /\ phototherapyDiff > -TCB_CONFIRMATION_OFFSET_MG_DL
            THEN Some(DISCHARGE_TEXT)
            ELSE Undefined
    IN  [ immediateAction |-> immediateAction,
          followUpRecommendation |-> followUpRecommendation,
          dischargeConsiderations |-> dischargeConsiderations ]

\* generateClinicalGuidance whose discharge test includes both boundaries
generateClinicalGuidance_inclusiveDischarge(bilirubinMgDl, thresholds, ageHours) ==
    LET phototherapyDiff == bilirubinMgDl - thresholds.phototherapy
        immediateAction == determineAapClinicalAction(bilirubinMgDl, thresholds)
        diffBelowThreshold == -phototherapyDiff
        followUpRecommendation ==
            IF phototherapyDiff >= 0
            THEN "Phototherapy indicated - see clinical action"
            ELSE findFollowUpRule(diffBelowThreshold, ageHours).recommendation
        dischargeConsiderations ==
            IF /\ ageHours <= DISCHARGE_WARNING_AGE_HOURS
               /\ phototherapyDiff >= -TCB_CONFIRMATION_OFFSET_MG_DL
            THEN Some(DISCHARGE_TEXT)
            ELSE Undefined
    IN  [ immediateAction |-> immediateAction,
          followUpRecommendation |-> followUpRecommendation,
          dischargeConsiderations |-> dischargeConsiderations ]

\* generateClinicalGuidance whose discharge caveat includes a measured value
\* exactly 2 below the phototherapy threshold
generateClinicalGuidance_caveatAtTwo(bilirubinMgDl, thresholds, ageHours) ==
    LET phototherapyDiff == bilirubinMgDl - thresholds.phototherapy
        immediateAction == determineAapClinicalAction(bilirubinMgDl, thresholds)
        diffBelowThreshold == -phototherapyDiff
        followUpRecommendation ==
            IF phototherapyDiff >= 0
            THEN "Phototherapy indicated - see clinical action"
            ELSE findFollowUpRule(diffBelowThreshold, ageHours).recommendation
        dischargeConsiderations ==
            IF /\ ageHours < DISCHARGE_WARNING_AGE_HOURS
               /\ phototherapyDiff >= -TCB_CONFIRMATION_OFFSET_MG_DL
            THEN Some(DISCHARGE_TEXT)
            ELSE Undefined
    IN  [ immediateAction |-> immediateAction,
          followUpRecommendation |-> followUpRecommendation,
          dischargeConsiderations |-> dischargeConsiderations ]

generateClinicalGuidance(bilirubinMgDl, thresholds, ageHours) ==
    LET phototherapyDiff == bilirubinMgDl - thresholds.phototherapy
        immediateAction == determineAapClinicalAction(bilirubinMgDl, thresholds)
        diffBelowThreshold == -phototherapyDiff
        followUpRecommendation ==
            IF phototherapyDiff >= 0
            THEN "Phototherapy indicated - see clinical action"
            ELSE findFollowUpRule(diffBelowThreshold, ageHours).recommendation
        dischargeConsiderations ==
            IF /\ ageHours < DISCHARGE_WARNING_AGE_HOURS
               /\ phototherapyDiff > -TCB_CONFIRMATION_OFFSET_MG_DL
            THEN Some(DISCHARGE_TEXT)
            ELSE Undefined
    IN  [ immediateAction |-> immediateAction,
          followUpRecommendation |-> followUpRecommendation,
          dischargeConsiderations |-> dischargeConsiderations ]

\* the record assessHyperbiliRisk returns
ThresholdDifferences(currentTSB, thresholds) ==
    [ fromPhototherapy |-> currentTSB - thresholds.phototherapy,
      fromEscalationOfCare |-> currentTSB - thresholds.escalationOfCare,
      fromExchangeTransfusion |-> currentTSB - thresholds.exchangeTransfusion ]

\* assessHyperbiliRisk that takes a single risk factor as none
assessHyperbiliRisk_needsTwoFactors(store, input) ==
    LET ageHours == input.currentAgeHours
        presentRiskFactors ==
            IF input.riskFactors.defined THEN input.riskFactors.value ELSE <<>>
        hasNeurotoxicityRiskFactors == Len(presentRiskFactors) > 1
        aapFigureUsed == IF hasNeurotoxicityRiskFactors THEN 3 ELSE 2
        thresholds ==
            calculateBilirubinThresholds(store, input.gestationalAge, ageHours,
                                         hasNeurotoxicityRiskFactors)
    IN  IF ~validateHyperbiliRiskInput(input) THEN Throw("InvalidInputError")
        ELSE IF ~IsOk(thresholds) THEN thresholds
        ELSE Ok([ currentTSB |-> input.currentTSB,
                  thresholds |-> thresholds.value,
                  clinicalStatus |->
                      assessClinicalStatus(input.currentTSB, thresholds.value),
                  thresholdDifferences |->
                      ThresholdDifferences(input.currentTSB, thresholds.value),
                  clinicalGuidance |->
                      generateClinicalGuidance(input.currentTSB, thresholds.value, ageHours),
                  assessmentContext |->
                      [ hasNeurotoxicityRiskFactors |-> hasNeurotoxicityRiskFactors,
                        presentRiskFactors |-> presentRiskFactors,
                        aapFigureUsed |-> aapFigureUsed,
                        ageHours |-> input.currentAgeHours,
                        gestationalAgeWeeks |-> input.gestationalAge ] ])

\* assessHyperbiliRisk that reports the age and the gestational age the lookup
\* used: the age floored and held within 1..336, the gestational age floored
assessHyperbiliRisk_echoesLookupValues(store, input) ==
    LET ageHours == input.currentAgeHours
        presentRiskFactors ==
            IF input.riskFactors.defined THEN input.riskFactors.value ELSE <<>>
        hasNeurotoxicityRiskFactors == Len(presentRiskFactors) > 0
        aapFigureUsed == IF hasNeurotoxicityRiskFactors THEN 3 ELSE 2
        thresholds ==
            calculateBilirubinThresholds(store, input.gestationalAge, ageHours,
                                         hasNeurotoxicityRiskFactors)
    IN  IF ~validateHyperbiliRiskInput(input) THEN Throw("InvalidInputError")
        ELSE IF ~IsOk(thresholds) THEN thresholds
        ELSE Ok([ currentTSB |-> input.currentTSB,
                  thresholds |-> thresholds.value,
                  clinicalStatus |->
                      assessClinicalStatus(input.currentTSB, thresholds.value),
                  thresholdDifferences |->
                      ThresholdDifferences(input.currentTSB, thresholds.value),
                  clinicalGuidance |->
                      generateClinicalGuidance(input.currentTSB, thresholds.value, ageHours),
                  assessmentContext |->
                      [ hasNeurotoxicityRiskFactors |-> hasNeurotoxicityRiskFactors,
                        presentRiskFactors |-> presentRiskFactors,
                        aapFigureUsed |-> aapFigureUsed,
                        ageHours |-> ClampHours(input.currentAgeHours),
                        gestationalAgeWeeks |-> Floor(input.gestationalAge) ] ])

\* assessHyperbiliRisk that answers a failed lookup with the part of the
\* result it can still fill in
assessHyperbiliRisk_partialOnFault(store, input) ==
    LET ageHours == input.currentAgeHours
        presentRiskFactors ==
            IF input.riskFactors.defined THEN input.riskFactors.value ELSE <<>>
        hasNeurotoxicityRiskFactors == Len(presentRiskFactors) > 0
        aapFigureUsed == IF hasNeurotoxicityRiskFactors THEN 3 ELSE 2
        thresholds ==
            calculateBilirubinThresholds(store, input.gestationalAge, ageHours,
                                         hasNeurotoxicityRiskFactors)
        assessmentContext ==
            [ hasNeurotoxicityRiskFactors |-> hasNeurotoxicityRiskFactors,
              presentRiskFactors |-> presentRiskFactors,
              aapFigureUsed |-> aapFigureUsed,
              ageHours |-> input.currentAgeHours,
              gestationalAgeWeeks |-> input.gestationalAge ]
    IN  IF ~validateHyperbiliRiskInput(input) THEN Throw("InvalidInputError")
        ELSE IF ~IsOk(thresholds)
        THEN Ok([ currentTSB |-> input.currentTSB, assessmentContext |-> assessmentContext ])
        ELSE Ok([ currentTSB |-> input.currentTSB,
                  thresholds |-> thresholds.value,
                  clinicalStatus |->
                      assessClinicalStatus(input.currentTSB, thresholds.value),
                  thresholdDifferences |->
                      ThresholdDifferences(input.currentTSB, thresholds.value),
                  clinicalGuidance |->
                      generateClinicalGuidance(input.currentTSB, thresholds.value, ageHours),
                  assessmentContext |-> assessmentContext ])

assessHyperbiliRisk(store, input) ==
    LET ageHours == input.currentAgeHours
        presentRiskFactors ==
            IF input.riskFactors.defined THEN input.riskFactors.value ELSE <<>>
        hasNeurotoxicityRiskFactors == Len(presentRiskFactors) > 0
        aapFigureUsed == IF hasNeurotoxicityRiskFactors THEN 3 ELSE 2
        thresholds ==
            calculateBilirubinThresholds(store, input.gestationalAge, ageHours,
                                         hasNeurotoxicityRiskFactors)
    IN  IF ~validateHyperbiliRiskInput(input) THEN Throw("InvalidInputError")
        ELSE IF ~IsOk(thresholds) THEN thresholds
        ELSE Ok([ currentTSB |-> input.currentTSB,
                  thresholds |-> thresholds.value,
                  clinicalStatus |->
                      assessClinicalStatus(input.currentTSB, thresholds.value),
                  thresholdDifferences |->
                      ThresholdDifferences(input.currentTSB, thresholds.value),
                  clinicalGuidance |->
                      generateClinicalGuidance(input.currentTSB, thresholds.value, ageHours),
                  assessmentContext |->
                      [ hasNeurotoxicityRiskFactors |-> hasNeurotoxicityRiskFactors,
                        presentRiskFactors |-> presentRiskFactors,
                        aapFigureUsed |-> aapFigureUsed,
                        ageHours |-> input.currentAgeHours,
                        gestationalAgeWeeks |-> input.gestationalAge ] ])

\* the other copy of the module in the repository: the same orchestrator
\* without the call of validateHyperbiliRiskInput
assessHyperbiliRiskWithoutValidation(store, input) ==
    LET ageHours == input.currentAgeHours
        presentRiskFactors ==
            IF input.riskFactors.defined THEN input.riskFactors.value ELSE <<>>
        hasNeurotoxicityRiskFactors == Len(presentRiskFactors) > 0
        aapFigureUsed == IF hasNeurotoxicityRiskFactors THEN 3 ELSE 2
        thresholds ==
            calculateBilirubinThresholds(store, input.gestationalAge, ageHours,
                                         hasNeurotoxicityRiskFactors)
    IN  IF ~IsOk(thresholds) THEN thresholds
        ELSE Ok([ currentTSB |-> input.currentTSB,
                  thresholds |-> thresholds.value,
                  clinicalStatus |->
                      assessClinicalStatus(input.currentTSB, thresholds.value),
                  thresholdDifferences |->
                      ThresholdDifferences(input.currentTSB, thresholds.value),
                  clinicalGuidance |->
                      generateClinicalGuidance(input.currentTSB, thresholds.value, ageHours),
                  assessmentContext |->
                      [ hasNeurotoxicityRiskFactors |-> hasNeurotoxicityRiskFactors,
                        presentRiskFactors |-> presentRiskFactors,
                        aapFigureUsed |-> aapFigureUsed,
                        ageHours |-> input.currentAgeHours,
                        gestationalAgeWeeks |-> input.gestationalAge ] ])

\* the two copies of the orchestrator, by the file that holds them
Orchestrator(file, store, input) ==
    IF file = "core/hyperbili-risk.ts"
    THEN assessHyperbiliRisk(store, input)
    ELSE assessHyperbiliRiskWithoutValidation(store, input)

---------------------------------------------------------------------------
(* The callers: inputs the exported functions are called with *)

\* gestational ages in weeks, whole and fractional, inside and outside 35..42
GestationalAges == {3400, 3500, 3700, 3800, 3850, 3900, 3990, 4000, 4200, 4300}

\* ages in hours, whole and fractional, inside and outside 1..336
AgeHours == {0, 50, 100, 150, 1200, 2300, 2400, 2470, 6200, 7100, 7200,
             33600, 33650, 40000}

\* measured bilirubin in hundredths of mg/dL, inside and outside 0..30
BilirubinValues == {-50, 0, 700, 800, 950, 1000, 1150, 1300, 1490, 1495, 1500,
                    1650, 1800, 2000, 2200, 2400, 3000, 3050}

RiskFactorLists ==
    { Undefined, Some(<<>>), Some(<<"G6PD deficiency">>),
      Some(<<"Sepsis", "Serum albumin <3.0 g/dL">>) }

\* distances below the phototherapy threshold handed to findFollowUpRule
\* directly: none, inside (0, 0.1), each band boundary, inside each band
DifferencesFromThreshold ==
    {-100, 0, 5, 10, 15, 200, 205, 350, 355, 550, 555, 700, 705, 5000}

\* thresholds handed to the status and guidance functions directly: derived
\* ones, and ones that are not ordered like derived ones
DirectThresholds ==
    { DeriveThresholds(1000, 2000), DeriveThresholds(1500, 1600),
      [ phototherapy |-> 2000, escalationOfCare |-> 1000,
        exchangeTransfusion |-> 1200, transcutaneousBilirubinConfirmation |-> 1800 ] }

Inputs ==
    [ gestationalAge : GestationalAges, currentAgeHours : AgeHours,
      currentTSB : BilirubinValues, riskFactors : RiskFactorLists ]

\* no call is in progress
Idle == [op |-> "none"]

Init ==
    /\ REFERENCE_TABLES \in Stores
    /\ followUpRules = HYPERBILI_FOLLOW_UP_RULES
    /\ call = Idle

GetThresholdValue ==
    /\ call = Idle
    /\ \E table \in LookupTables(REFERENCE_TABLES), gestationalAge \in GestationalAges,
          ageHours \in AgeHours :
         call' = [ op |-> "getThresholdValue", table |-> table,
                   gestationalAge |-> gestationalAge, ageHours |-> ageHours,
                   gaKey |-> determineGestationalAgeKey(table, gestationalAge),
                   outcome |-> getThresholdValue(table, gestationalAge, ageHours) ]
    /\ UNCHANGED <<REFERENCE_TABLES, followUpRules>>

CalculateBilirubinThresholds ==
    /\ call = Idle
    /\ \E gestationalAgeWeeks \in GestationalAges, ageHours \in AgeHours,
          hasNeurotoxicityRiskFactors \in BOOLEAN :
         call' = [ op |-> "calculateBilirubinThresholds",
                   gestationalAgeWeeks |-> gestationalAgeWeeks, ageHours |-> ageHours,
                   hasNeurotoxicityRiskFactors |-> hasNeurotoxicityRiskFactors,
                   outcome |->
                       calculateBilirubinThresholds(REFERENCE_TABLES, gestationalAgeWeeks,
                                                    ageHours, hasNeurotoxicityRiskFactors) ]
    /\ UNCHANGED <<REFERENCE_TABLES, followUpRules>>

AssessClinicalStatus ==
    /\ call = Idle
    /\ \E bilirubinMgDl \in BilirubinValues, thresholds \in DirectThresholds :
         call' = [ op |-> "assessClinicalStatus", bilirubinMgDl |-> bilirubinMgDl,
                   thresholds |-> thresholds,
                   outcome |-> Ok(assessClinicalStatus(bilirubinMgDl, thresholds)) ]
    /\ UNCHANGED <<REFERENCE_TABLES, followUpRules>>

DetermineAapClinicalAction ==
    /\ call = Idle
    /\ \E bilirubinMgDl \in BilirubinValues, thresholds \in DirectThresholds :
         call' = [ op |-> "determineAapClinicalAction", bilirubinMgDl |-> bilirubinMgDl,
                   thresholds |-> thresholds,
                   outcome |-> Ok(determineAapClinicalAction(bilirubinMgDl, thresholds)) ]
    /\ UNCHANGED <<REFERENCE_TABLES, followUpRules>>

GenerateClinicalGuidance ==
    /\ call = Idle
    /\ \E bilirubinMgDl \in BilirubinValues, thresholds \in DirectThresholds,
          ageHours \in AgeHours :
         call' = [ op |-> "generateClinicalGuidance", bilirubinMgDl |-> bilirubinMgDl,
                   thresholds |-> thresholds, ageHours |-> ageHours,
                   outcome |->
                       Ok(generateClinicalGuidance(bilirubinMgDl, thresholds, ageHours)) ]
    /\ UNCHANGED <<REFERENCE_TABLES, followUpRules>>

AssessHyperbiliRisk ==
    /\ call = Idle
    /\ \E input \in Inputs :
         call' = [ op |-> "assessHyperbiliRisk", file |-> "core/hyperbili-risk.ts",
                   input |-> input,
                   outcome |-> assessHyperbiliRisk(REFERENCE_TABLES, input) ]
    /\ UNCHANGED <<REFERENCE_TABLES, followUpRules>>

AssessHyperbiliRiskWithoutValidation ==
    /\ call = Idle
    /\ \E input \in Inputs :
         call' = [ op |-> "assessHyperbiliRisk", file |-> "unnamed/part_000",
                   input |-> input,
                   outcome |->
                       assessHyperbiliRiskWithoutValidation(REFERENCE_TABLES, input) ]
    /\ UNCHANGED <<REFERENCE_TABLES, followUpRules>>

\* the lookup written with Array.prototype.reverse, which reorders the shared
\* array in place before searching it
FindFollowUpRule_reversesCatalog ==
    /\ call = Idle
    /\ \E differenceFromThreshold \in DifferencesFromThreshold, ageHours \in AgeHours :
         call' = [ op |-> "findFollowUpRule",
                   differenceFromThreshold |-> differenceFromThreshold,
                   ageHours |-> ageHours,
                   outcome |-> Ok(findFollowUpRule(differenceFromThreshold, ageHours)) ]
    /\ followUpRules' = [ i \in 1..Len(followUpRules) |->
                            followUpRules[Len(followUpRules) + 1 - i] ]
    /\ UNCHANGED REFERENCE_TABLES

FindFollowUpRule ==
    /\ call = Idle
    /\ \E differenceFromThreshold \in DifferencesFromThreshold, ageHours \in AgeHours :
         call' = [ op |-> "findFollowUpRule",
                   differenceFromThreshold |-> differenceFromThreshold,
                   ageHours |-> ageHours,
                   outcome |-> Ok(findFollowUpRule(differenceFromThreshold, ageHours)) ]
    /\ UNCHANGED <<REFERENCE_TABLES, followUpRules>>

\* the caller takes the outcome; the next call may begin
Return ==
    /\ call # Idle
    /\ call' = Idle
    /\ UNCHANGED <<REFERENCE_TABLES, followUpRules>>

Next ==
    \/ GetThresholdValue
    \/ CalculateBilirubinThresholds
    \/ AssessClinicalStatus
    \/ DetermineAapClinicalAction
    \/ GenerateClinicalGuidance
    \/ FindFollowUpRule
    \/ AssessHyperbiliRisk
    \/ AssessHyperbiliRiskWithoutValidation
    \/ Return

Spec == Init /\ [][Next]_vars

---------------------------------------------------------------------------
(* Properties *)

IsCall(op) == call.op = op

Returned(op) == IsCall(op) /\ IsOk(call.outcome)

\* the two raw lookups of the returned calculateBilirubinThresholds call
RawPhototherapy ==
    getThresholdValue(
        SelectPhototherapyTable(REFERENCE_TABLES, call.hasNeurotoxicityRiskFactors),
        call.gestationalAgeWeeks, call.ageHours).value

RawExchange ==
    getThresholdValue(
        SelectExchangeTable(REFERENCE_TABLES, call.hasNeurotoxicityRiskFactors),
        call.gestationalAgeWeeks, call.ageHours).value

\* C1: whenever calculateBilirubinThresholds returns, with P the lookup in the
\* phototherapy table and E the lookup in the exchange table, phototherapy = P,
\* exchangeTransfusion = E, escalationOfCare = E - 2 and
\* transcutaneousBilirubinConfirmation = P - 2, so that exchangeTransfusion >=
\* escalationOfCare and phototherapy >= transcutaneousBilirubinConfirmation.
C1_DerivedThresholds ==
    Returned("calculateBilirubinThresholds") =>
        LET t == call.outcome.value
        IN  /\ t.phototherapy = RawPhototherapy
            /\ t.exchangeTransfusion = RawExchange
            /\ t.escalationOfCare = RawExchange - 200
            /\ t.transcutaneousBilirubinConfirmation = RawPhototherapy - 200
            /\ t.exchangeTransfusion >= t.escalationOfCare
            /\ t.phototherapy >= t.transcutaneousBilirubinConfirmation

\* a returned derivation whose two raw values differ by something other than
\* the offsets
C1_Witness ==
    /\ Returned("calculateBilirubinThresholds")
    /\ call.outcome.value.escalationOfCare # call.outcome.value.phototherapy - 200
    /\ call.outcome.value.escalationOfCare = call.outcome.value.exchangeTransfusion - 200

\* C2: calculateBilirubinThresholds takes both raw values from the same risk
\* variant: with the risk flag set, the phototherapy value is the lookup in the
\* phototherapy-with-risk table and the exchange value the lookup in the
\* exchange-with-risk table; without it, both are lookups in the no-risk tables.
C2_SameRiskVariant ==
    Returned("calculateBilirubinThresholds") =>
        LET t  == call.outcome.value
            ga == call.gestationalAgeWeeks
            h  == call.ageHours
        IN  IF call.hasNeurotoxicityRiskFactors
            THEN /\ Ok(t.phototherapy) =
                        getThresholdValue(REFERENCE_TABLES.phototherapyWithRisk, ga, h)
                 /\ Ok(t.exchangeTransfusion) =
                        getThresholdValue(REFERENCE_TABLES.exchangeWithRisk, ga, h)
            ELSE /\ Ok(t.phototherapy) =
                        getThresholdValue(REFERENCE_TABLES.phototherapyNoRisk, ga, h)
                 /\ Ok(t.exchangeTransfusion) =
                        getThresholdValue(REFERENCE_TABLES.exchangeNoRisk, ga, h)

\* a returned derivation for a risk-factor infant at coordinates where the
\* no-risk tables hold other values
C2_Witness ==
    /\ Returned("calculateBilirubinThresholds")
    /\ call.hasNeurotoxicityRiskFactors
    /\ Ok(call.outcome.value.phototherapy) #
           getThresholdValue(REFERENCE_TABLES.phototherapyNoRisk,
                             call.gestationalAgeWeeks, call.ageHours)
    /\ Ok(call.outcome.value.exchangeTransfusion) #
           getThresholdValue(REFERENCE_TABLES.exchangeNoRisk,
                             call.gestationalAgeWeeks, call.ageHours)

\* the tables of each kind, in any store and among the directly used ones
PhototherapyNoRiskTables == { s.phototherapyNoRisk : s \in Stores } \cup {StepTable}

PhototherapyWithRiskTables == { s.phototherapyWithRisk : s \in Stores } \cup {HoleTable}

ExchangeTables ==
    { s.exchangeNoRisk : s \in Stores } \cup { s.exchangeWithRisk : s \in Stores }
        \cup {SparseTable}

\* C3: at and above a grouping boundary the key is the grouped bucket: on a
\* phototherapy no-risk table with a 40 bucket every gestational age >= 40
\* resolves to '40'; on a phototherapy with-risk table and on both exchange
\* tables every gestational age >= 38 resolves to '38'.
C3_GroupingBoundary ==
    IsCall("getThresholdValue") =>
        /\ ( /\ call.table \in PhototherapyNoRiskTables
             /\ Num(40) \in AvailableKeys(call.table)
             /\ call.gestationalAge >= 4000 )
               => call.gaKey = Ok(<<"4", "0">>)
        /\ ( /\ call.table \in PhototherapyWithRiskTables \cup ExchangeTables
             /\ call.gestationalAge >= 3800 )
               => call.gaKey = Ok(<<"3", "8">>)

\* a lookup exactly at the boundary 40 on the no-risk phototherapy table
C3_Witness ==
    /\ IsCall("getThresholdValue")
    /\ call.table = REFERENCE_TABLES.phototherapyNoRisk
    /\ call.gestationalAge = 4000
    /\ call.gaKey = Ok(<<"4", "0">>)

\* C4: the >= 38 grouping does not apply to the phototherapy no-risk table: on
\* it (title containing 'Without', buckets 35..40) a gestational age g with
\* 38 <= g < 40 resolves to the bucket keyed floor(g), and the value looked up
\* is that bucket's value at the age.
C4_NoRiskUngroupedBelow40 ==
    ( /\ IsCall("getThresholdValue")
      /\ call.table \in PhototherapyNoRiskTables
      /\ Includes(call.table.title, W_Without)
      /\ DOMAIN call.table.thresholds = WeekKeys(35, 40)
      /\ call.gestationalAge >= 3800
      /\ call.gestationalAge < 4000 )
        => /\ call.gaKey = Ok(String(Floor(call.gestationalAge)))
           /\ call.outcome =
                  ThresholdAtHour(call.table.thresholds[String(Floor(call.gestationalAge))],
                                  call.ageHours)

\* the bucket a lookup has resolved to
ResolvedBucket == call.table.thresholds[call.gaKey.value]

HasResolvedBucket ==
    /\ IsCall("getThresholdValue")
    /\ IsOk(call.gaKey)
    /\ call.gaKey.value \in DOMAIN call.table.thresholds

\* C5: for every table, bucket and ageHours >= the bucket's plateauHour,
\* getThresholdValue returns exactly plateauValue, and the lookups at
\* plateauHour, plateauHour + 50 and 336 return the same.
C5_PlateauValue ==
    (HasResolvedBucket /\ call.ageHours >= ResolvedBucket.plateauHour) =>
        /\ call.outcome = Ok(ResolvedBucket.plateauValue)
        /\ \A h \in { ResolvedBucket.plateauHour, ResolvedBucket.plateauHour + 5000, 33600 } :
             getThresholdValue(call.table, call.gestationalAge, h) = call.outcome

\* a lookup exactly at plateauHour in a bucket whose plateau value is not the
\* hourly value stored for that hour
C5_Witness ==
    /\ HasResolvedBucket
    /\ call.ageHours = ResolvedBucket.plateauHour
    /\ String(call.ageHours) \in DOMAIN ResolvedBucket.values
    /\ ResolvedBucket.values[String(call.ageHours)] # ResolvedBucket.plateauValue
    /\ call.outcome = Ok(ResolvedBucket.plateauValue)

\* C6: getThresholdValue clamps and floors the age before the lookup: below
\* hour 1 the result is the result at hour 1, above hour 336 the result at
\* hour 336, and for a fractional age inside [1, 336] the result at its floor.
C6_ClampAndFloor ==
    IsCall("getThresholdValue") =>
        /\ call.ageHours < 100 =>
             call.outcome = getThresholdValue(call.table, call.gestationalAge, 100)
        /\ call.ageHours > 33600 =>
             call.outcome = getThresholdValue(call.table, call.gestationalAge, 33600)
        /\ (call.ageHours >= 100 /\ call.ageHours <= 33600) =>
             call.outcome = getThresholdValue(call.table, call.gestationalAge,
                                              (call.ageHours \div 100) * 100)

\* a lookup at a fractional age below the plateau that returned the hourly
\* value of the whole hour
C6_Witness ==
    /\ HasResolvedBucket
    /\ call.ageHours % 100 # 0
    /\ call.ageHours > 100
    /\ call.ageHours < ResolvedBucket.plateauHour
    /\ IsOk(call.outcome)
    /\ call.outcome.value # ResolvedBucket.plateauValue

\* the whole hour a lookup age stands for
ClaimedHour(ageHours) ==
    IF ageHours < 100 THEN 100
    ELSE IF ageHours > 33600 THEN 33600
    ELSE (ageHours \div 100) * 100

\* C7: when the clamped hour is below the bucket's plateauHour and absent from
\* the bucket's values, getThresholdValue fails with a data-not-available
\* error; it returns neither an adjacent hour's value nor the plateau value.
C7_MissingHourFails ==
    ( /\ HasResolvedBucket
      /\ ClaimedHour(call.ageHours) < ResolvedBucket.plateauHour
      /\ String(ClaimedHour(call.ageHours)) \notin DOMAIN ResolvedBucket.values )
        => call.outcome = Throw("DataNotAvailableError")

\* the lookup at hour 24 in a bucket with plateauHour 30 and no hour 24
C7_Witness ==
    /\ HasResolvedBucket
    /\ call.ageHours = 2400
    /\ ResolvedBucket.plateauHour = 3000
    /\ <<"2", "4">> \notin DOMAIN ResolvedBucket.values
    /\ <<"2", "3">> \in DOMAIN ResolvedBucket.values
    /\ call.outcome = Throw("DataNotAvailableError")

\* the four flags as the claims state them
FlagsAsClaimed(status, measured, thresholds) ==
    /\ status.requiresPhototherapy = (measured >= thresholds.phototherapy)
    /\ status.requiresIntensivePhototherapy = (measured >= thresholds.escalationOfCare)
    /\ status.requiresExchangeTransfusion = (measured >= thresholds.exchangeTransfusion)
    /\ status.requiresSerumConfirmationForTcB =
           (measured >= thresholds.transcutaneousBilirubinConfirmation)

\* C8: assessClinicalStatus sets each flag to (measured >= its threshold),
\* inclusive at the boundary, and in a result of assessHyperbiliRisk each of
\* the first three flags is true exactly when the matching threshold
\* difference is >= 0.
C8_InclusiveFlags ==
    /\ IsCall("assessClinicalStatus") =>
         FlagsAsClaimed(call.outcome.value, call.bilirubinMgDl, call.thresholds)
    /\ Returned("assessHyperbiliRisk") =>
         LET r == call.outcome.value
         IN  /\ FlagsAsClaimed(r.clinicalStatus, call.input.currentTSB, r.thresholds)
             /\ r.clinicalStatus.requiresPhototherapy =
                    (r.thresholdDifferences.fromPhototherapy >= 0)
             /\ r.clinicalStatus.requiresIntensivePhototherapy =
                    (r.thresholdDifferences.fromEscalationOfCare >= 0)
             /\ r.clinicalStatus.requiresExchangeTransfusion =
                    (r.thresholdDifferences.fromExchangeTransfusion >= 0)

\* an assessment of a measured value exactly at the phototherapy threshold
C8_Witness ==
    /\ Returned("assessHyperbiliRisk")
    /\ call.input.currentTSB = call.outcome.value.thresholds.phototherapy
    /\ call.outcome.value.thresholdDifferences.fromPhototherapy = 0
    /\ call.outcome.value.clinicalStatus.requiresPhototherapy

\* the immediate action as the claim states it
ActionAsClaimed(action, measured, thresholds) ==
    /\ measured >= thresholds.exchangeTransfusion
         => action = "Begin exchange transfusion"
    /\ (measured < thresholds.exchangeTransfusion
          /\ measured >= thresholds.escalationOfCare)
         => action = "Begin intensive phototherapy and prepare for exchange transfusion"
    /\ (measured < thresholds.exchangeTransfusion
          /\ measured < thresholds.escalationOfCare
          /\ measured >= thresholds.phototherapy)
         => action = "Begin phototherapy"
    /\ (measured < thresholds.exchangeTransfusion
          /\ measured < thresholds.escalationOfCare
          /\ measured < thresholds.phototherapy)
         => action = "No phototherapy required"

\* C9: immediateAction is chosen top-down, first match wins: exchange
\* transfusion, else intensive phototherapy, else phototherapy, else none;
\* every input gets one of the four labels.
C9_ImmediateActionFirstMatch ==
    /\ IsCall("determineAapClinicalAction") =>
         ActionAsClaimed(call.outcome.value, call.bilirubinMgDl, call.thresholds)
    /\ IsCall("generateClinicalGuidance") =>
         ActionAsClaimed(call.outcome.value.immediateAction, call.bilirubinMgDl,
                         call.thresholds)
    /\ Returned("assessHyperbiliRisk") =>
         ActionAsClaimed(call.outcome.value.clinicalGuidance.immediateAction,
                         call.input.currentTSB, call.outcome.value.thresholds)

\* a measured value at or above the exchange threshold and below the
\* phototherapy threshold: the first match decides
C9_Witness ==
    /\ IsCall("generateClinicalGuidance")
    /\ call.bilirubinMgDl >= call.thresholds.exchangeTransfusion
    /\ call.bilirubinMgDl < call.thresholds.phototherapy
    /\ call.outcome.value.immediateAction = "Begin exchange transfusion"

\* C10 as stated: every set of thresholds produced by
\* calculateBilirubinThresholds has exchangeTransfusion >= escalationOfCare >=
\* phototherapy.
C10_Original ==
    Returned("calculateBilirubinThresholds") =>
        /\ call.outcome.value.exchangeTransfusion >= call.outcome.value.escalationOfCare
        /\ call.outcome.value.escalationOfCare >= call.outcome.value.phototherapy

\* C10, amended: every set of thresholds produced by
\* calculateBilirubinThresholds has exchangeTransfusion >= escalationOfCare,
\* and has escalationOfCare >= phototherapy exactly when the exchange table's
\* value is at least 2 mg/dL above the phototherapy table's value at the
\* patient's coordinates.
C10_EscalationOrdering ==
    Returned("calculateBilirubinThresholds") =>
        /\ call.outcome.value.exchangeTransfusion >= call.outcome.value.escalationOfCare
        /\ (call.outcome.value.escalationOfCare >= call.outcome.value.phototherapy)
             <=> (RawExchange >= RawPhototherapy + 200)

\* thresholds derived from tables whose exchange value is less than 2 mg/dL
\* above the phototherapy value
C10_Witness ==
    /\ Returned("calculateBilirubinThresholds")
    /\ call.outcome.value.exchangeTransfusion >= call.outcome.value.escalationOfCare
    /\ call.outcome.value.escalationOfCare < call.outcome.value.phototherapy

\* the difference measured - phototherapy of a guidance call
GuidanceCalls ==
    IF IsCall("generateClinicalGuidance")
    THEN { [ diff |-> call.bilirubinMgDl - call.thresholds.phototherapy,
             ageHours |-> call.ageHours, guidance |-> call.outcome.value ] }
    ELSE IF Returned("assessHyperbiliRisk")
    THEN { [ diff |-> call.input.currentTSB - call.outcome.value.thresholds.phototherapy,
             ageHours |-> call.input.currentAgeHours,
             guidance |-> call.outcome.value.clinicalGuidance ] }
    ELSE {}

\* the recommendations the rule lookup can give
RuleRecommendations ==
    { HYPERBILI_FOLLOW_UP_RULES[i].recommendation : i \in 1..Len(HYPERBILI_FOLLOW_UP_RULES) }
        \cup { BELOW_THRESHOLD_RULE.recommendation, FALLBACK_RULE.recommendation }

\* C11: in generateClinicalGuidance, with diff = measured - phototherapy: when
\* diff >= 0 followUpRecommendation is the fixed string 'Phototherapy indicated
\* - see clinical action', which no rule carries; when diff < 0 it is the
\* recommendation of findFollowUpRule(-diff, ageHours).
C11_FollowUpRecommendation ==
    \A g \in GuidanceCalls :
        /\ g.diff >= 0 =>
             /\ g.guidance.followUpRecommendation =
                    "Phototherapy indicated - see clinical action"
             /\ g.guidance.followUpRecommendation \notin RuleRecommendations
        /\ g.diff < 0 =>
             g.guidance.followUpRecommendation =
                 findFollowUpRule(-g.diff, g.ageHours).recommendation

\* a guidance call with the measured value exactly at the phototherapy
\* threshold, answered with the fixed string
C11_Witness ==
    /\ IsCall("generateClinicalGuidance")
    /\ call.bilirubinMgDl = call.thresholds.phototherapy
    /\ call.outcome.value.followUpRecommendation =
           "Phototherapy indicated - see clinical action"

\* the matching condition as claimed, for the rule at position i of the catalog
ClaimedMatch(i, gap, ageHours) ==
    LET rule == HYPERBILI_FOLLOW_UP_RULES[i]
        hasMin == "minHours" \in DOMAIN rule.ageCondition
        hasMax == "maxHours" \in DOMAIN rule.ageCondition
    IN  /\ rule.minDifference < gap
        /\ gap <= rule.maxDifference
        /\ (~hasMin \/ ageHours >= rule.ageCondition.minHours)
        /\ (~hasMax \/ ageHours < rule.ageCondition.maxHours)

\* C12: a follow-up rule matches exactly when minDifference < gap <=
\* maxDifference and the age is at or above minHours (if any) and below
\* maxHours (if any), and the first matching rule in catalog order is returned.
\* Hence gap exactly 2.0, 3.5, 5.5 or 7.0 selects the band whose upper bound it
\* is, age exactly 24 selects rule_1b rather than rule_1a, and age exactly 72
\* selects rule_4b / rule_5b rather than rule_4a / rule_5a.
C12_RuleMatching ==
    (IsCall("findFollowUpRule") /\ call.differenceFromThreshold > 0) =>
        LET gap == call.differenceFromThreshold
            age == call.ageHours
            id  == call.outcome.value.id
            n   == Len(HYPERBILI_FOLLOW_UP_RULES)
        IN  /\ \A i \in 1..n :
                 ( /\ ClaimedMatch(i, gap, age)
                   /\ \A j \in 1..(i - 1) : ~ClaimedMatch(j, gap, age) )
                     => call.outcome.value = HYPERBILI_FOLLOW_UP_RULES[i]
            /\ (\E i \in 1..n : call.outcome.value = HYPERBILI_FOLLOW_UP_RULES[i])
                 => \E i \in 1..n : ClaimedMatch(i, gap, age)
            /\ gap = 200 => id \in {"rule_1a", "rule_1b"}
            /\ gap = 350 => id = "rule_2"
            /\ gap = 550 => id = "rule_3"
            /\ gap = 700 => id \in {"rule_4a", "rule_4b"}
            /\ (age = 2400 /\ gap > 10 /\ gap <= 200) => id = "rule_1b"
            /\ (age = 7200 /\ gap > 550 /\ gap <= 700) => id = "rule_4b"
            /\ (age = 7200 /\ gap > 700) => id = "rule_5b"

\* a lookup at gap exactly 2.0 and age exactly 24 that selected rule_1b
C12_Witness ==
    /\ IsCall("findFollowUpRule")
    /\ call.differenceFromThreshold = 200
    /\ call.ageHours = 2400
    /\ call.outcome.value.id = "rule_1b"

\* the catalog as a set of rules
CatalogRules ==
    { HYPERBILI_FOLLOW_UP_RULES[i] : i \in 1..Len(HYPERBILI_FOLLOW_UP_RULES) }

\* C13: guidance coverage: for every gap in (0, 0.1), at exactly 0.1, 2.0,
\* 3.5, 5.5 and 7.0, and above 7.0, combined with every age in {23, 24, 71,
\* 72, 400}, findFollowUpRule resolves to exactly one rule of the catalog and
\* never to the generic fallback rule.
C13_GuidanceCoverage ==
    ( /\ IsCall("findFollowUpRule")
      /\ \/ (call.differenceFromThreshold > 0 /\ call.differenceFromThreshold < 10)
         \/ call.differenceFromThreshold \in {10, 200, 350, 550, 700}
         \/ call.differenceFromThreshold > 700
      /\ call.ageHours \in {2300, 2400, 7100, 7200, 40000} )
        => /\ call.outcome.value \in CatalogRules
           /\ call.outcome.value.id # "rule_fallback"

\* the ids a follow-up rule can carry
RuleIds ==
    { r.id : r \in CatalogRules } \cup {"rule_negative", "rule_fallback"}

\* C14: findFollowUpRule is total: for every gap and age it returns a rule and
\* never raises; when no catalog rule matches a positive gap it returns the
\* generic rule 'Clinical judgment - consult AAP guidelines' (id
\* rule_fallback), so generateClinicalGuidance gives that text instead of
\* failing.
C14_FindFollowUpRuleTotal ==
    /\ IsCall("findFollowUpRule") =>
         /\ IsOk(call.outcome)
         /\ call.outcome.value.id \in RuleIds
         /\ ( /\ call.differenceFromThreshold > 0
              /\ \A i \in 1..Len(HYPERBILI_FOLLOW_UP_RULES) :
                   ~ClaimedMatch(i, call.differenceFromThreshold, call.ageHours) )
              => /\ call.outcome.value.id = "rule_fallback"
                 /\ call.outcome.value.recommendation =
                        "Clinical judgment - consult AAP guidelines"
    /\ \A g \in GuidanceCalls :
         ( /\ g.diff < 0
           /\ \A i \in 1..Len(HYPERBILI_FOLLOW_UP_RULES) :
                ~ClaimedMatch(i, -g.diff, g.ageHours) )
           => g.guidance.followUpRecommendation =
                  "Clinical judgment - consult AAP guidelines"

\* a guidance call for a measured value 0.05 below the phototherapy threshold,
\* which no catalog rule covers, answered with the generic text
C14_Witness ==
    /\ IsCall("generateClinicalGuidance")
    /\ call.bilirubinMgDl - call.thresholds.phototherapy = -5
    /\ IsOk(call.outcome)
    /\ call.outcome.value.followUpRecommendation =
           "Clinical judgment - consult AAP guidelines"

\* C15: dischargeConsiderations is present, as a non-empty caveat string,
\* exactly when ageHours < 24 and measured - phototherapy > -2; in every other
\* case it is absent (undefined), never an empty string; in particular at
\* ageHours = 24 and at a difference of exactly -2.
C15_DischargeConsiderations ==
    \A g \in GuidanceCalls :
        LET d == g.guidance.dischargeConsiderations
        IN  /\ d.defined <=> (g.ageHours < 2400 /\ g.diff > -200)
            /\ d.defined => d.value # ""
            /\ ~d.defined => d = Undefined
            /\ (g.ageHours = 2400 \/ g.diff = -200) => d = Undefined

\* a guidance call for an infant of 23 hours whose measured value is exactly 2
\* below the phototherapy threshold: no caveat
C15_Witness ==
    /\ IsCall("generateClinicalGuidance")
    /\ call.ageHours = 2300
    /\ call.bilirubinMgDl - call.thresholds.phototherapy = -200
    /\ call.outcome.value.dischargeConsiderations = Undefined

\* a risk factor list that names at least one factor
NonEmptyList(riskFactors) == riskFactors.defined /\ Len(riskFactors.value) > 0

\* the outcome of the same orchestrator, on the same store, for the input of
\* the call with another risk factor list
WithRiskFactors(riskFactors) ==
    Orchestrator(call.file, REFERENCE_TABLES,
                 [call.input EXCEPT !.riskFactors = riskFactors])

\* C16: only the presence of a risk factor matters: two calls of
\* assessHyperbiliRisk that agree on gestationalAge, currentAgeHours and
\* currentTSB and both carry a non-empty riskFactors list, whatever its members
\* or length, return identical thresholds, clinicalStatus, thresholdDifferences
\* and clinicalGuidance (or fail alike); of the result only
\* assessmentContext.presentRiskFactors may differ.
C16_OnlyPresenceMatters ==
    (IsCall("assessHyperbiliRisk") /\ NonEmptyList(call.input.riskFactors)) =>
        \A riskFactors \in { l \in RiskFactorLists : NonEmptyList(l) } :
            LET other == WithRiskFactors(riskFactors)
            IN  IF IsOk(call.outcome)
                THEN /\ IsOk(other)
                     /\ other.value.thresholds = call.outcome.value.thresholds
                     /\ other.value.clinicalStatus = call.outcome.value.clinicalStatus
                     /\ other.value.thresholdDifferences =
                            call.outcome.value.thresholdDifferences
                     /\ other.value.clinicalGuidance = call.outcome.value.clinicalGuidance
                     /\ [other.value EXCEPT !.assessmentContext.presentRiskFactors = <<>>] =
                            [call.outcome.value EXCEPT
                                !.assessmentContext.presentRiskFactors = <<>>]
                ELSE other = call.outcome

\* a result for an infant with one risk factor whose thresholds are not those
\* of the same infant without risk factors, while a longer list of other
\* factors gives a result of its own
C16_Witness ==
    /\ Returned("assessHyperbiliRisk")
    /\ call.input.riskFactors = Some(<<"G6PD deficiency">>)
    /\ WithRiskFactors(Some(<<>>)).value.thresholds # call.outcome.value.thresholds
    /\ WithRiskFactors(Some(<<"Sepsis", "Serum albumin <3.0 g/dL">>)) # call.outcome

\* C17: in every result of assessHyperbiliRisk,
\* assessmentContext.hasNeurotoxicityRiskFactors is true exactly when the
\* riskFactors list is non-empty (a missing list counts as empty),
\* aapFigureUsed is 3 when it is true and 2 otherwise, presentRiskFactors is
\* the input list, and currentTSB, assessmentContext.ageHours and
\* assessmentContext.gestationalAgeWeeks are the input values unchanged.
C17_AssessmentContext ==
    Returned("assessHyperbiliRisk") =>
        LET result  == call.outcome.value
            context == result.assessmentContext
            list    == call.input.riskFactors
        IN  /\ context.hasNeurotoxicityRiskFactors <=> NonEmptyList(list)
            /\ context.aapFigureUsed = IF NonEmptyList(list) THEN 3 ELSE 2
            /\ list.defined => context.presentRiskFactors = list.value
            /\ ~list.defined => context.presentRiskFactors = <<>>
            /\ result.currentTSB = call.input.currentTSB
            /\ context.ageHours = call.input.currentAgeHours
            /\ context.gestationalAgeWeeks = call.input.gestationalAge

\* a result for an input without a risk factor list, with a fractional age and
\* a fractional gestational age, that reports Figure 2 and both values as given
C17_Witness ==
    /\ Returned("assessHyperbiliRisk")
    /\ call.input.riskFactors = Undefined
    /\ call.input.currentAgeHours = 150
    /\ call.input.gestationalAge = 3850
    /\ call.outcome.value.assessmentContext.aapFigureUsed = 2
    /\ call.outcome.value.assessmentContext.ageHours = 150
    /\ call.outcome.value.assessmentContext.gestationalAgeWeeks = 3850

\* the validation range
InValidationRange(input) ==
    /\ input.gestationalAge >= 3500 /\ input.gestationalAge <= 4200
    /\ input.currentAgeHours >= 100 /\ input.currentAgeHours <= 33600
    /\ input.currentTSB >= 0 /\ input.currentTSB <= 3000

\* C19: assessHyperbiliRisk rejects every input outside the validation range
\* (gestationalAge < 35 or > 42, currentAgeHours < 1 or > 336, currentTSB < 0
\* or > 30) with an InvalidInputError and returns no result; every input
\* inside all three ranges passes validation.
C19_ValidationRejects ==
    IsCall("assessHyperbiliRisk") =>
        IF InValidationRange(call.input)
        THEN call.outcome # Throw("InvalidInputError")
        ELSE call.outcome = Throw("InvalidInputError")

\* the same of the copy in core/hyperbili-risk.ts alone
ValidatedCopyRejects ==
    (IsCall("assessHyperbiliRisk") /\ call.file = "core/hyperbili-risk.ts") =>
        IF InValidationRange(call.input)
        THEN call.outcome # Throw("InvalidInputError")
        ELSE call.outcome = Throw("InvalidInputError")

\* the structural invariants of one table: the unit label, integer bucket
\* keys without a gap that include the grouping key, and in every bucket
\* every hour from 1 to plateauHour
WellFormedTable(table, groupingKey) ==
    LET keys == AvailableKeys(table)
    IN  /\ table.units = "mg/dL"
        /\ \A k \in keys : IsInteger(k)
        /\ \A k \in keys : (k - Unit) \in keys \/ \A j \in keys : k <= j
        /\ Num(groupingKey) \in keys
        /\ \A ga \in DOMAIN table.thresholds :
             LET threshold == table.thresholds[ga]
             IN  \A h \in 1..(threshold.plateauHour \div Unit) :
                   String(Num(h)) \in DOMAIN threshold.values

\* the stores all of whose tables satisfy the structural invariants
WellFormedStores ==
    { store \in Stores :
        /\ WellFormedTable(store.phototherapyNoRisk, 40)
        /\ WellFormedTable(store.phototherapyWithRisk, 38)
        /\ WellFormedTable(store.exchangeNoRisk, 38)
        /\ WellFormedTable(store.exchangeWithRisk, 38) }

\* C20: for every input inside the validated ranges (gestational age 35..42,
\* age 1..336 hours, TSB 0..30, any risk factor list) and tables that satisfy
\* the structural invariants, assessHyperbiliRisk returns a complete result
\* and raises no fault.
C20_ValidInputsSucceed ==
    ( /\ IsCall("assessHyperbiliRisk")
      /\ InValidationRange(call.input)
      /\ REFERENCE_TABLES \in WellFormedStores )
        => /\ IsOk(call.outcome)
           /\ DOMAIN call.outcome.value =
                  { "currentTSB", "thresholds", "clinicalStatus", "thresholdDifferences",
                    "clinicalGuidance", "assessmentContext" }
           /\ DOMAIN call.outcome.value.thresholds =
                  { "phototherapy", "escalationOfCare", "exchangeTransfusion",
                    "transcutaneousBilirubinConfirmation" }
           /\ call.outcome.value.clinicalGuidance.immediateAction # ""
           /\ call.outcome.value.clinicalGuidance.followUpRecommendation # ""

\* a result for an input on the edge of every range (42 weeks, 336 hours,
\* 30 mg/dL) on a well-formed store, while the same input fails on a store
\* that is not well-formed
C20_Witness ==
    /\ Returned("assessHyperbiliRisk")
    /\ call.input.gestationalAge = 4200
    /\ call.input.currentAgeHours = 33600
    /\ call.input.currentTSB = 3000
    /\ REFERENCE_TABLES \in WellFormedStores
    /\ \E store \in Stores \ WellFormedStores :
         ~IsOk(Orchestrator(call.file, store, call.input))

\* a fault is raised during the assessment in progress: the validation of the
\* copy that validates rejects the input, or the threshold derivation fails
\* (unresolvable key, data not available, tables that do not load)
FaultRaised ==
    /\ IsCall("assessHyperbiliRisk")
    /\ \/ (call.file = "core/hyperbili-risk.ts" /\ ~InValidationRange(call.input))
       \/ ~IsOk(calculateBilirubinThresholds(
                    REFERENCE_TABLES, call.input.gestationalAge,
                    call.input.currentAgeHours, NonEmptyList(call.input.riskFactors)))

\* what a failed call gives its caller: the kind of the error and nothing else
FaultOutcomes ==
    { Throw("InvalidInputError"), Throw("DataNotAvailableError"), Throw("InternalError") }

\* C21: a fault raised during an assessment is fatal to that call:
\* assessHyperbiliRisk returns no partial result (no thresholds, status or
\* guidance), and the failed call leaves the shared data and the caller as
\* they were before it, so later calls with other inputs are unaffected.
C21_FaultIsFatal ==
    [][ /\ FaultRaised =>
             /\ call.outcome \in FaultOutcomes
             /\ DOMAIN call.outcome = {"status"}
        /\ (IsCall("assessHyperbiliRisk") /\ ~IsOk(call.outcome)) =>
             /\ call' = Idle
             /\ REFERENCE_TABLES' = REFERENCE_TABLES
             /\ followUpRules' = followUpRules ]_vars

\* an assessment of an in-range input that failed in the lookup, on a curve
\* with a missing hour
C21_Witness ==
    /\ IsCall("assessHyperbiliRisk")
    /\ InValidationRange(call.input)
    /\ call.outcome = Throw("DataNotAvailableError")

\* C22: no operation of the core (key resolution, lookup, threshold
\* derivation, status evaluation, guidance matching, full assessment, whether
\* it succeeds or fails) modifies the four reference tables or the follow-up
\* rule catalog: every step leaves both as they were, and the catalog is the
\* authored one after any sequence of calls.
C22_SharedDataUnchanged ==
    [][ /\ REFERENCE_TABLES' = REFERENCE_TABLES
        /\ followUpRules' = followUpRules
        /\ followUpRules = HYPERBILI_FOLLOW_UP_RULES
        /\ followUpRules' = HYPERBILI_FOLLOW_UP_RULES ]_vars

\* a full assessment that went through key resolution, both lookups and the
\* rule matching and returned a catalog rule's recommendation, with the store
\* and the catalog still as loaded
C22_Witness ==
    /\ Returned("assessHyperbiliRisk")
    /\ call.outcome.value.clinicalGuidance.followUpRecommendation \in
           { r.recommendation : r \in CatalogRules }
    /\ followUpRules = HYPERBILI_FOLLOW_UP_RULES
    /\ REFERENCE_TABLES = AapStore

\* the bucket keys of the table of the lookup, as numbers
CallKeys == { DigitsValue(k) * 100 : k \in DOMAIN call.table.thresholds }

\* one of the three grouping rules applies to the lookup, by the tests the
\* resolver makes on the title, the keys and the gestational age
GroupingApplies ==
    \/ /\ Includes(call.table.title, W_Without)
       /\ 4000 \in CallKeys
       /\ call.gestationalAge >= 4000
    \/ /\ Includes(call.table.title, W_With)
       /\ Includes(call.table.title, W_Phototherapy)
       /\ call.gestationalAge >= 3800
    \/ /\ Includes(call.table.title, W_Exchange)
       /\ call.gestationalAge >= 3800

\* the bucket keys are integers without a gap
ContiguousKeys ==
    \A k \in CallKeys : (k - 100) \in CallKeys \/ \A j \in CallKeys : k <= j

C24_Original ==
    (IsCall("getThresholdValue") /\ IsOk(call.gaKey)) =>
        call.gaKey.value \in DOMAIN call.table.thresholds

\* the >= 38 grouping answers '38' on a table that has no 38 bucket
GroupedTo38WithoutBucket ==
    /\ ~( /\ Includes(call.table.title, W_Without)
          /\ 4000 \in CallKeys
          /\ call.gestationalAge >= 4000 )
    /\ \/ ( /\ Includes(call.table.title, W_With)
            /\ Includes(call.table.title, W_Phototherapy) )
       \/ Includes(call.table.title, W_Exchange)
    /\ call.gestationalAge >= 3800
    /\ 3800 \notin CallKeys

\* C24, amended: the key returned by key resolution is a bucket key of the
\* table except when the >= 38 grouping applies on a table without a 38
\* bucket; then the key is '38' and getThresholdValue fails with
\* data-not-available for the missing bucket. The 40 grouping tests that the
\* bucket exists, the 38 groupings do not.
C24_KeyExistsUnlessGrouped ==
    (IsCall("getThresholdValue") /\ IsOk(call.gaKey)) =>
        /\ ~GroupedTo38WithoutBucket =>
               call.gaKey.value \in DOMAIN call.table.thresholds
        /\ GroupedTo38WithoutBucket =>
               /\ call.gaKey = Ok(<<"3", "8">>)
               /\ call.gaKey.value \notin DOMAIN call.table.thresholds
               /\ call.outcome = Throw("DataNotAvailableError")

\* a lookup on a table with a gap in its keys and no grouping, for a
\* gestational age above its largest key: the key returned is that largest
\* key, a bucket of the table
C24_Witness ==
    /\ IsCall("getThresholdValue")
    /\ ~GroupingApplies
    /\ ~ContiguousKeys
    /\ \A k \in CallKeys : k < call.gestationalAge
    /\ IsOk(call.gaKey)
    /\ call.gaKey.value \in DOMAIN call.table.thresholds

\* the thresholds the call in progress would get for the age of 1 hour
ThresholdsAtHourOne ==
    calculateBilirubinThresholds(REFERENCE_TABLES, call.gestationalAgeWeeks, 100,
                                 call.hasNeurotoxicityRiskFactors)

TablesLoad == IsOk(loadAllReferenceTables(REFERENCE_TABLES))

DerivedStatuses ==
    IF Returned("assessHyperbiliRisk") THEN { call.outcome.value.clinicalStatus }
    ELSE IF Returned("calculateBilirubinThresholds")
    THEN { assessClinicalStatus(b, call.outcome.value) : b \in BilirubinValues }
    ELSE {}

\* C26: in every clinicalStatus computed from thresholds produced by
\* calculateBilirubinThresholds, requiresExchangeTransfusion implies
\* requiresIntensivePhototherapy and requiresPhototherapy implies
\* requiresSerumConfirmationForTcB, for every measured value.
C26_FlagImplications ==
    \A status \in DerivedStatuses :
        /\ status.requiresExchangeTransfusion => status.requiresIntensivePhototherapy
        /\ status.requiresPhototherapy => status.requiresSerumConfirmationForTcB

\* an assessment whose measured value is at or above the exchange threshold,
\* with all four flags set
C26_Witness ==
    /\ Returned("assessHyperbiliRisk")
    /\ call.input.currentTSB >= call.outcome.value.thresholds.exchangeTransfusion
    /\ call.outcome.value.clinicalStatus.requiresExchangeTransfusion
    /\ call.outcome.value.clinicalStatus.requiresIntensivePhototherapy
    /\ call.outcome.value.clinicalStatus.requiresPhototherapy
    /\ call.outcome.value.clinicalStatus.requiresSerumConfirmationForTcB

\* the results of assessHyperbiliRisk, as far as the guidance and the flags go
AssessmentResults ==
    IF Returned("assessHyperbiliRisk") THEN { call.outcome.value } ELSE {}

\* the immediate actions that start a treatment
TreatmentActions ==
    { "Begin phototherapy",
      "Begin intensive phototherapy and prepare for exchange transfusion",
      "Begin exchange transfusion" }

\* C27 as stated: in every result of assessHyperbiliRisk the guidance agrees
\* with the status flags: immediateAction is 'No phototherapy required'
\* exactly when requiresPhototherapy is false, followUpRecommendation is the
\* fixed 'Phototherapy indicated - see clinical action' string exactly when
\* requiresPhototherapy is true, and an immediate action that starts treatment
\* is never paired with a below-threshold follow-up rule.
C27_Original ==
    \A r \in AssessmentResults :
        /\ (r.clinicalGuidance.immediateAction = "No phototherapy required")
               <=> ~r.clinicalStatus.requiresPhototherapy
        /\ (r.clinicalGuidance.followUpRecommendation =
                "Phototherapy indicated - see clinical action")
               <=> r.clinicalStatus.requiresPhototherapy
        /\ r.clinicalGuidance.immediateAction \in TreatmentActions =>
               r.clinicalGuidance.followUpRecommendation \notin RuleRecommendations

\* C27, amended: in every result of assessHyperbiliRisk, followUpRecommendation
\* is the fixed string exactly when requiresPhototherapy is true, and
\* immediateAction is 'No phototherapy required' exactly when none of
\* requiresPhototherapy, requiresIntensivePhototherapy and
\* requiresExchangeTransfusion is set. When the escalation threshold is not
\* below the phototherapy threshold that is exactly when requiresPhototherapy
\* is false, and a treatment action is never paired with a follow-up rule;
\* when it is below, a measured value between the two gets intensive
\* phototherapy or exchange transfusion as its action together with a
\* below-threshold follow-up rule.
C27_GuidanceAgreesWithFlags ==
    \A r \in AssessmentResults :
        LET status   == r.clinicalStatus
            guidance == r.clinicalGuidance
            ordered  == r.thresholds.escalationOfCare >= r.thresholds.phototherapy
        IN  /\ (guidance.followUpRecommendation =
                    "Phototherapy indicated - see clinical action")
                   <=> status.requiresPhototherapy
            /\ (guidance.immediateAction = "No phototherapy required")
                   <=> ~( \/ status.requiresPhototherapy
                          \/ status.requiresIntensivePhototherapy
                          \/ status.requiresExchangeTransfusion )
            /\ ordered =>
                 /\ (guidance.immediateAction = "No phototherapy required")
                        <=> ~status.requiresPhototherapy
                 /\ guidance.immediateAction \in TreatmentActions =>
                        guidance.followUpRecommendation \notin RuleRecommendations
            /\ ( /\ ~ordered
                 /\ r.currentTSB >= r.thresholds.escalationOfCare
                 /\ r.currentTSB < r.thresholds.phototherapy )
                 => /\ guidance.immediateAction \in
                           TreatmentActions \ {"Begin phototherapy"}
                    /\ guidance.followUpRecommendation \in RuleRecommendations

\* an assessment with the measured value exactly at the phototherapy
\* threshold, below the escalation threshold: phototherapy begins and the
\* follow-up is the fixed string
C27_Witness ==
    /\ Returned("assessHyperbiliRisk")
    /\ call.input.currentTSB = call.outcome.value.thresholds.phototherapy
    /\ call.input.currentTSB < call.outcome.value.thresholds.escalationOfCare
    /\ call.outcome.value.clinicalStatus.requiresPhototherapy
    /\ call.outcome.value.clinicalGuidance.immediateAction = "Begin phototherapy"
    /\ call.outcome.value.clinicalGuidance.followUpRecommendation =
           "Phototherapy indicated - see clinical action"

\* the guidance carries the rule_1a follow-up
IsRule1a(guidance) ==
    guidance.followUpRecommendation =
        "Delay discharge, consider phototherapy, measure TSB in 4 to 8 hours"

\* C28 as stated: whenever generateClinicalGuidance returns the rule_1a
\* follow-up, dischargeConsiderations is present in the same result; the
\* follow-up band (0.1, 2.0] for infants under 24 hours and the discharge
\* caveat condition cover the same inputs, including a measured value exactly
\* 2.0 below the phototherapy threshold.
C28_Original ==
    \A g \in GuidanceCalls :
        /\ IsRule1a(g.guidance) => g.guidance.dischargeConsiderations.defined
        /\ (g.ageHours < 2400 /\ g.diff = -200) =>
               (IsRule1a(g.guidance) /\ g.guidance.dischargeConsiderations.defined)

\* C28, amended: the rule_1a follow-up is returned exactly for infants under
\* 24 hours with a measured value from 2.0 down to (not including) 0.1 below
\* the phototherapy threshold, and the discharge caveat for infants under 24
\* hours with a measured value less than 2.0 below it (or above it). With
\* rule_1a the caveat is present exactly when the gap is below 2.0: at exactly
\* 2.0 below, rule_1a comes without the caveat, and within 0.1 of the
\* threshold or above it the caveat comes without rule_1a.
C28_Rule1aAndCaveat ==
    \A g \in GuidanceCalls :
        LET caveat == g.guidance.dischargeConsiderations.defined
        IN  /\ IsRule1a(g.guidance) <=>
                   (g.ageHours < 2400 /\ g.diff >= -200 /\ g.diff < -10)
            /\ caveat <=> (g.ageHours < 2400 /\ g.diff > -200)
            /\ IsRule1a(g.guidance) => (caveat <=> g.diff # -200)
            /\ (g.ageHours < 2400 /\ g.diff = -200) => (IsRule1a(g.guidance) /\ ~caveat)
            /\ (g.ageHours < 2400 /\ g.diff >= -10) => (caveat /\ ~IsRule1a(g.guidance))

\* guidance for an infant of 23 hours with a measured value exactly 2.0 below
\* the phototherapy threshold: rule_1a without the caveat
C28_Witness ==
    /\ IsCall("generateClinicalGuidance")
    /\ call.ageHours = 2300
    /\ call.bilirubinMgDl - call.thresholds.phototherapy = -200
    /\ IsRule1a(call.outcome.value)
    /\ ~call.outcome.value.dischargeConsiderations.defined

\* the positions of the catalog whose rule matches the lookup in progress
MatchingPositions ==
    { i \in 1..Len(followUpRules) :
        RuleMatches(followUpRules[i], call.differenceFromThreshold, call.ageHours) }

\* C29: the rules of the follow-up catalog are pairwise disjoint: for every
\* gap and every age at most one rule of HYPERBILI_FOLLOW_UP_RULES matches, so
\* the rule returned by findFollowUpRule is that rule whatever the order of
\* the catalog.
C29_RulesDisjoint ==
    IsCall("findFollowUpRule") =>
        /\ Cardinality(MatchingPositions) <= 1
        /\ call.differenceFromThreshold > 0 =>
             \A i \in MatchingPositions : call.outcome.value = followUpRules[i]

\* a lookup matched by one rule of a band that the catalog splits by age
C29_Witness ==
    /\ IsCall("findFollowUpRule")
    /\ Cardinality(MatchingPositions) = 1
    /\ \E i \in MatchingPositions, j \in 1..Len(followUpRules) :
         /\ j # i
         /\ followUpRules[j].minDifference = followUpRules[i].minDifference
         /\ call.outcome.value = followUpRules[i]

\* C30: the sentinel rule (id rule_negative, 'TSB exceeds phototherapy
\* threshold - phototherapy is indicated') is returned by findFollowUpRule for
\* every gap <= 0 regardless of age, and is never the source of a
\* followUpRecommendation produced by generateClinicalGuidance or
\* assessHyperbiliRisk, which call findFollowUpRule only with a strictly
\* positive gap.
C30_SentinelRule ==
    /\ (IsCall("findFollowUpRule") /\ call.differenceFromThreshold <= 0) =>
         /\ call.outcome.value.id = "rule_negative"
         /\ call.outcome.value.recommendation =
                "TSB exceeds phototherapy threshold - phototherapy is indicated"
    /\ (IsCall("findFollowUpRule") /\ call.differenceFromThreshold > 0) =>
         call.outcome.value.id # "rule_negative"
    /\ \A g \in GuidanceCalls :
         g.guidance.followUpRecommendation #
             "TSB exceeds phototherapy threshold - phototherapy is indicated"

\* a direct lookup with gap exactly 0 for an infant older than 336 hours,
\* answered with the sentinel
C30_Witness ==
    /\ IsCall("findFollowUpRule")
    /\ call.differenceFromThreshold = 0
    /\ call.ageHours > 33600
    /\ call.outcome.value.id = "rule_negative"

====
